---- MODULE Spec2Model ----
(***************************************************************************)
(* The vector similarity index of the wardrobe backend                     *)
(* (backend/services/embeddings.py): the EmbeddingIndex object with its    *)
(* FAISS store, its item_ids list and its user_map, the snapshot file it   *)
(* persists, and the Catalog (the clothing_items table) it is rebuilt      *)
(* from.                                                                   *)
(*                                                                         *)
(* Representation.  An embedding is a list of floats.  Here it is a record *)
(* [dim, x, y]: a list of length dim whose first two components are x and  *)
(* y and whose other components are 0.  faiss.normalize_L2 maps a vector   *)
(* to the unit vector of its direction; the unit vector of an integer      *)
(* vector is represented by the primitive integer vector of that direction *)
(* (components divided by their gcd), so that two vectors normalise to the *)
(* same value exactly when they have the same direction.  The inner        *)
(* product of two unit vectors is the cosine c of their angle; a score is  *)
(* the exact fraction sign(c)*c^2, which orders as c does.                 *)
(* Optional values (Python's None) are sequences: <<>> is None, <<v>> is v.*)
(* FAISS ordinals are 0-based as in the source; item_ids[idx] of the       *)
(* source is item_ids[idx + 1] here.                                       *)
(***************************************************************************)
EXTENDS Integers, Sequences, FiniteSets, TLC

VARIABLES
    catalog,    \* clothing_items table: item id -> row
    snapshot,   \* the file at INDEX_PATH
    ready,      \* _embedding_index is not None (the singleton is constructed)
    index,      \* self.index: the vectors of the FAISS store, by ordinal
    item_ids,   \* self.item_ids
    user_map,   \* self.user_map, as a set of <<item_id, user_id>> pairs
    last,       \* the call that ended last: its arguments, outcome and result
    removed,    \* ids whose remove_item returned and that were not added again
    pc,         \* request threads: the statement each is at
    loc         \* request threads: the arguments and locals of the call each runs

vars == <<catalog, snapshot, ready, index, item_ids, user_map, last, removed, pc, loc>>

EMBEDDING_DIM == 512
OVERFETCH == 10

\* Bounds of the model.
MaxItemId == 2
MaxIndexLen == 2
MaxK == 2
NumThreads == 2
MaxCalls == 1
MaxStored == 11

---------------------------------------------------------------------------
\* Optional values and Python truthiness.

None == <<>>

Some(v) == <<v>>

\* `if user_id:` / `if exclude_id and ...`: None and 0 are both falsy.
Truthy(o) == o # None /\ o[1] # 0

Range(s) == {s[i] : i \in 1..Len(s)}

Min(a, b) == IF a <= b THEN a ELSE b

Abs(n) == IF n < 0 THEN -n ELSE n

Sign(n) == IF n < 0 THEN -1 ELSE IF n = 0 THEN 0 ELSE 1

RECURSIVE Gcd(_, _)
Gcd(a, b) == IF b = 0 THEN a ELSE Gcd(b, a % b)

---------------------------------------------------------------------------
\* Vectors.

Vec(n, a, b) == [dim |-> n, x |-> a, y |-> b]

NoVec == Vec(0, 0, 0)

\* faiss.normalize_L2: scale to unit length; the zero vector is left as it is.
Normalize(v) ==
    LET g == Gcd(Abs(v.x), Abs(v.y))
    IN  IF g = 0 THEN v ELSE [v EXCEPT !.x = v.x \div g, !.y = v.y \div g]

Dot(u, w) == u.x * w.x + u.y * w.y

\* Inner product of the unit vectors u/|u| and w/|w| (IndexFlatIP's metric),
\* as the reduced fraction sign(c)*c^2 of the cosine c.
Score(u, w) ==
    LET d == Dot(u, w)
        den == Dot(u, u) * Dot(w, w)
        n == Sign(d) * d * d
        g == Gcd(Abs(n), den)
    IN  IF den = 0 THEN [num |-> 0, den |-> 1]
        ELSE [num |-> n \div g, den |-> den \div g]

ScoreLess(s, t) == s.num * t.den < t.num * s.den

\* Embeddings handed to add_item and stored in Catalog rows: lists of
\* EMBEDDING_DIM floats.
Embeddings == {Vec(EMBEDDING_DIM, 2, 0), Vec(EMBEDDING_DIM, 1, 1)}

\* A list of another length.
ShortEmbedding == Vec(EMBEDDING_DIM - 1, 1, 0)

Queries == {Vec(EMBEDDING_DIM, 1, 0), Vec(EMBEDDING_DIM, 0, 2)}

ItemIds == 1..MaxItemId

UserIds == {1, 2}

---------------------------------------------------------------------------
\* The FAISS store (IndexFlatIP) and its file.

\* faiss.IndexFlatIP(EMBEDDING_DIM): an empty store.
IndexFlatIP == <<>>

\* index.add(vec) checks the vector's length against the store's dimension.
IndexAccepts(vec) == vec.dim = EMBEDDING_DIM

IndexAdd(ix, vec) == Append(ix, vec)

\* IndexSearch that ranks the lowest scores first.
IndexSearchWorstFirst(ix, vec, n) ==
    LET N == Len(ix)
        Before(a, b) == ScoreLess(a.score, b.score) \/ (a.score = b.score /\ a.idx < b.idx)
        ranked == SortSeq([i \in 1..N |-> [idx |-> i - 1, score |-> Score(ix[i], vec)]],
                          Before)
    IN  [p \in 1..n |->
            IF p <= N THEN ranked[p]
            ELSE [idx |-> -1, score |-> [num |-> -1, den |-> 1]]]

\* index.search(vec, n): the n best (score, ordinal) pairs, best first, ties by
\* ascending ordinal; slots beyond the store's size are filled with ordinal -1.
IndexSearch(ix, vec, n) ==
    LET N == Len(ix)
        Before(a, b) == ScoreLess(b.score, a.score) \/ (a.score = b.score /\ a.idx < b.idx)
        ranked == SortSeq([i \in 1..N |-> [idx |-> i - 1, score |-> Score(ix[i], vec)]],
                          Before)
    IN  [p \in 1..n |->
            IF p <= N THEN ranked[p]
            ELSE [idx |-> -1, score |-> [num |-> -1, den |-> 1]]]

RECURSIVE Flatten(_)
Flatten(ix) ==
    IF ix = <<>> THEN <<>>
    ELSE <<ix[1].x, ix[1].y>> \o Flatten(Tail(ix))

NoFile == [exists |-> FALSE, d |-> 0, data |-> <<>>]

\* faiss.write_index: the dimension header and the flat buffer of components.
WriteIndex(ix) == [exists |-> TRUE, d |-> EMBEDDING_DIM, data |-> Flatten(ix)]

\* faiss.read_index: the vectors of the file, in order.
ReadIndex(f) ==
    [i \in 1..(Len(f.data) \div 2) |-> Vec(f.d, f.data[2 * i - 1], f.data[2 * i])]

---------------------------------------------------------------------------
\* user_map: a dict from item id to user id.

MapGet(um, id) ==
    IF \E p \in um : p[1] = id
    THEN Some((CHOOSE p \in um : p[1] = id)[2])
    ELSE None

MapSet(um, id, u) == {p \in um : p[1] # id} \cup {<<id, u>>}

MapDel(um, id) == {p \in um : p[1] # id}

MapKeys(um) == {p[1] : p \in um}

---------------------------------------------------------------------------
\* The Catalog: the clothing_items table.  A row has an embedding_json text
\* column (NULL, or the JSON text of a list) and a nullable user_id.

JsonDumps(e) == [kind |-> "json", v |-> e]

NullText == [kind |-> "null", v |-> NoVec]

\* A text that is not JSON.
Garbage == [kind |-> "garbage", v |-> NoVec]

\* json.loads: the list the text encodes, or a decode error.
JsonLoads(t) == [ok |-> t.kind = "json", value |-> t.v]

Absent == [present |-> FALSE, embedding_json |-> NullText, user_id |-> None]

Row(ej, u) == [present |-> TRUE, embedding_json |-> ej, user_id |-> u]

\* Rows the application writes (embedding_json = json.dumps(embedding),
\* user_id = user.id), legacy rows without an owner or without an embedding,
\* and rows written outside the application whose text cannot be indexed.
Rows ==
    {Row(JsonDumps(Vec(EMBEDDING_DIM, 2, 0)), Some(1)),
     Row(JsonDumps(Vec(EMBEDDING_DIM, 1, 1)), None),
     Row(NullText, None),
     Row(Garbage, None)}

RECURSIVE Ascending(_)
Ascending(S) ==
    IF S = {} THEN <<>>
    ELSE LET m == CHOOSE x \in S : \A y \in S : x <= y
         IN  <<m>> \o Ascending(S \ {m})

\* db.query(ClothingItem).filter(embedding_json IS NOT NULL [, id != exclude_id])
\*   .order_by(ClothingItem.id).all()
EmbeddingBearingIds(cat, exclude_id) ==
    {i \in DOMAIN cat : /\ cat[i].present
                        /\ cat[i].embedding_json.kind # "null"
                        /\ (exclude_id = None \/ i # exclude_id[1])}

Query(cat, exclude_id) ==
    LET ids == Ascending(EmbeddingBearingIds(cat, exclude_id))
    IN  [n \in 1..Len(ids) |->
            [id |-> ids[n],
             embedding_json |-> cat[ids[n]].embedding_json,
             user_id |-> cat[ids[n]].user_id]]

---------------------------------------------------------------------------
\* EmbeddingIndex.  An operation is a function of the object's fields and the
\* snapshot file, s = [index, item_ids, user_map, snapshot], to the same
\* record with the outcome of the call: "ok" when it returns, the name of the
\* error when it raises.  fault names the failure the environment injects
\* into the call: "none", "db" (the Catalog query raises) or "save"
\* (faiss.write_index raises and leaves the file as it was).

Returns(s) == [s EXCEPT !.outcome = "ok"]

Raises(s, e) == [s EXCEPT !.outcome = e]

\* _save
Save(s, fault) ==
    IF fault = "save" THEN Raises(s, "PersistenceFailure")
    ELSE Returns([s EXCEPT !.snapshot = WriteIndex(s.index)])

\* _rebuild_all, the body of `for item in items`.  st.raised is "" until an
\* iteration raises.
RebuildVisit(st, item) ==
    IF item.embedding_json.kind = "null" THEN st
    ELSE LET embedding == JsonLoads(item.embedding_json)
             vec == Normalize(embedding.value)
         IN  IF ~embedding.ok THEN [st EXCEPT !.raised = "JSONDecodeError"]
             ELSE IF ~IndexAccepts(vec) THEN [st EXCEPT !.raised = "DimensionMismatch"]
             ELSE [st EXCEPT
                     !.index = IndexAdd(@, vec),
                     !.item_ids = Append(@, item.id),
                     !.user_map = IF Truthy(item.user_id)
                                  THEN MapSet(@, item.id, item.user_id[1])
                                  ELSE @]

RECURSIVE RebuildLoop(_, _, _)
RebuildLoop(st, items, n) ==
    IF n > Len(items) \/ st.raised # "" THEN st
    ELSE RebuildLoop(RebuildVisit(st, items[n]), items, n + 1)

\* RebuildAll without its closing self._save().
RebuildAllNoSave(s, items, fault) ==
    LET fresh == [index |-> IndexFlatIP, item_ids |-> <<>>, user_map |-> {},
                  raised |-> ""]
        st == RebuildLoop(fresh, items, 1)
        s1 == [s EXCEPT !.index = st.index, !.item_ids = st.item_ids,
                        !.user_map = st.user_map]
    IN  IF st.raised # "" THEN Raises(s1, st.raised) ELSE Returns(s1)

\* _rebuild_all
RebuildAll(s, items, fault) ==
    LET fresh == [index |-> IndexFlatIP, item_ids |-> <<>>, user_map |-> {},
                  raised |-> ""]
        st == RebuildLoop(fresh, items, 1)
        s1 == [s EXCEPT !.index = st.index, !.item_ids = st.item_ids,
                        !.user_map = st.user_map]
    IN  IF st.raised # "" THEN Raises(s1, st.raised) ELSE Save(s1, fault)

\* _rebuild_without
RebuildWithout(s, cat, exclude_id, fault) ==
    IF fault = "db" THEN Raises(s, "CatalogReadError")
    ELSE RebuildAll(s, Query(cat, Some(exclude_id)), fault)

\* add_item with item_ids.append moved before index.add.
AddItemOpIdFirst(s, item_id, embedding, user_id, fault) ==
    LET vec == Normalize(embedding)
        s1 == [s EXCEPT !.item_ids = Append(@, item_id)]
    IN  IF ~IndexAccepts(vec) THEN Raises(s1, "DimensionMismatch")
        ELSE Save([s1 EXCEPT
                     !.index = IndexAdd(@, vec),
                     !.user_map = IF Truthy(user_id)
                                  THEN MapSet(@, item_id, user_id[1])
                                  ELSE @],
                  fault)

\* add_item with self._save() moved before the additions.
AddItemOpSaveFirst(s, item_id, embedding, user_id, fault) ==
    LET vec == Normalize(embedding)
        s1 == Save(s, fault)
    IN  IF ~IndexAccepts(vec) THEN Raises(s, "DimensionMismatch")
        ELSE IF s1.outcome # "ok" THEN s1
        ELSE [s1 EXCEPT
                !.index = IndexAdd(@, vec),
                !.item_ids = Append(@, item_id),
                !.user_map = IF Truthy(user_id)
                             THEN MapSet(@, item_id, user_id[1])
                             ELSE @]

\* add_item
AddItemOp(s, item_id, embedding, user_id, fault) ==
    LET vec == Normalize(embedding)
    IN  IF ~IndexAccepts(vec) THEN Raises(s, "DimensionMismatch")
        ELSE Save([s EXCEPT
                     !.index = IndexAdd(@, vec),
                     !.item_ids = Append(@, item_id),
                     !.user_map = IF Truthy(user_id)
                                  THEN MapSet(@, item_id, user_id[1])
                                  ELSE @],
                  fault)

\* remove_item without `if item_id in self.item_ids`: it always rebuilds.
RemoveItemOpAlwaysRebuild(s, cat, item_id, fault) ==
    LET s1 == RebuildWithout(s, cat, item_id, fault)
    IN  IF s1.outcome # "ok" THEN s1
        ELSE [s1 EXCEPT !.user_map = MapDel(@, item_id)]

\* remove_item
RemoveItemOp(s, cat, item_id, fault) ==
    LET s1 == IF item_id \in Range(s.item_ids)
              THEN RebuildWithout(s, cat, item_id, fault)
              ELSE Returns(s)
    IN  IF s1.outcome # "ok" THEN s1
        ELSE [s1 EXCEPT !.user_map = MapDel(@, item_id)]

\* _load_metadata that trusts the file: no rebuild on a count mismatch.
LoadMetadataTrusting(s, cat, fault) ==
    IF fault = "db" THEN Raises(s, "CatalogReadError")
    ELSE LET items == Query(cat, None)
         IN  Returns([s EXCEPT
                        !.item_ids = [n \in 1..Len(items) |-> items[n].id],
                        !.user_map = {<<items[n].id, items[n].user_id[1]>> :
                                        n \in {m \in 1..Len(items) : Truthy(items[m].user_id)}}])

\* _load_metadata
LoadMetadata(s, cat, fault) ==
    IF fault = "db" THEN Raises(s, "CatalogReadError")
    ELSE LET items == Query(cat, None)
             s1 == [s EXCEPT
                      !.item_ids = [n \in 1..Len(items) |-> items[n].id],
                      !.user_map = {<<items[n].id, items[n].user_id[1]>> :
                                      n \in {m \in 1..Len(items) : Truthy(items[m].user_id)}}]
         IN  IF Len(s1.item_ids) # Len(s1.index)
             THEN RebuildAll(s1, items, fault)
             ELSE Returns(s1)

\* __init__ and _load_or_create, from the file f at INDEX_PATH
LoadOrCreate(f, cat, fault) ==
    LET s0 == [index |-> IndexFlatIP, item_ids |-> <<>>, user_map |-> {},
               snapshot |-> f, outcome |-> "ok"]
    IN  IF f.exists
        THEN LoadMetadata([s0 EXCEPT !.index = ReadIndex(f)], cat, fault)
        ELSE s0

\* SearchVisit without `if len(results) >= k: break`.
SearchVisitNoBreak(st, cand, ids, um, k, exclude_id, user_id) ==
    IF cand.idx < 0 \/ cand.idx >= Len(ids) THEN st
    ELSE LET item_id == ids[cand.idx + 1]
             item_owner == MapGet(um, item_id)
         IN  IF user_id # None /\ item_owner # None /\ item_owner # user_id THEN st
             ELSE IF Truthy(exclude_id) /\ item_id = exclude_id[1] THEN st
             ELSE [results |-> Append(st.results, [item_id |-> item_id, score |-> cand.score]),
                   stop |-> FALSE]

\* search_similar, the body of `for score, idx in zip(scores[0], indices[0])`.
\* st.stop is set by `break`.
SearchVisit(st, cand, ids, um, k, exclude_id, user_id) ==
    IF cand.idx < 0 \/ cand.idx >= Len(ids) THEN st
    ELSE LET item_id == ids[cand.idx + 1]
             item_owner == MapGet(um, item_id)
         IN  IF user_id # None /\ item_owner # None /\ item_owner # user_id THEN st
             ELSE IF Truthy(exclude_id) /\ item_id = exclude_id[1] THEN st
             ELSE LET results == Append(st.results, [item_id |-> item_id, score |-> cand.score])
                  IN  [results |-> results, stop |-> Len(results) >= k]

\* SearchLoop that visits the candidates from the last one to the first.
RECURSIVE SearchLoopBackwards(_, _, _, _, _, _, _, _)
SearchLoopBackwards(st, cands, n, ids, um, k, exclude_id, user_id) ==
    IF n > Len(cands) \/ st.stop THEN st
    ELSE SearchLoopBackwards(
             SearchVisit(st, cands[Len(cands) + 1 - n], ids, um, k, exclude_id, user_id),
             cands, n + 1, ids, um, k, exclude_id, user_id)

RECURSIVE SearchLoop(_, _, _, _, _, _, _, _)
SearchLoop(st, cands, n, ids, um, k, exclude_id, user_id) ==
    IF n > Len(cands) \/ st.stop THEN st
    ELSE SearchLoop(SearchVisit(st, cands[n], ids, um, k, exclude_id, user_id),
                    cands, n + 1, ids, um, k, exclude_id, user_id)

\* SearchSimilar with search_k = self.index.ntotal: the whole store is ranked.
SearchSimilarWholeStore(s, embedding, k, exclude_id, user_id) ==
    IF Len(s.index) = 0 THEN <<>>
    ELSE LET vec == Normalize(embedding)
             cands == IndexSearch(s.index, vec, Len(s.index))
         IN  SearchLoop([results |-> <<>>, stop |-> FALSE], cands, 1,
                        s.item_ids, s.user_map, k, exclude_id, user_id).results

\* search_similar: the list of (item_id, score) it returns
SearchSimilar(s, embedding, k, exclude_id, user_id) ==
    IF Len(s.index) = 0 THEN <<>>
    ELSE LET vec == Normalize(embedding)
             search_k == Min(k * OVERFETCH, Len(s.index))
             cands == IndexSearch(s.index, vec, search_k)
         IN  SearchLoop([results |-> <<>>, stop |-> FALSE], cands, 1,
                        s.item_ids, s.user_map, k, exclude_id, user_id).results

---------------------------------------------------------------------------
\* The process: one call at a time, each running to completion.  `last` holds
\* the call that has just ended until its caller has taken the outcome
\* (Deliver); the next call starts after that.

Here == [index |-> index, item_ids |-> item_ids, user_map |-> user_map,
         snapshot |-> snapshot, outcome |-> "ok"]

Call(op, item_id, embedding, k, exclude_id, user_id, outcome, result, rebuilt) ==
    [op |-> op, item_id |-> item_id, embedding |-> embedding, k |-> k,
     exclude_id |-> exclude_id, user_id |-> user_id, outcome |-> outcome,
     result |-> result, rebuilt |-> rebuilt]

Idle == Call("idle", None, NoVec, 0, None, None, "ok", <<>>, FALSE)

Faults == {"none", "db", "save"}

Threads == 1..NumThreads

\* The arguments and locals of a call, and what it observed: before is the
\* store, item_ids and user_map as the rebuild of a remove_item found them,
\* calls the number of calls the thread has made.  inst is the EmbeddingIndex
\* object the thread has in hand when that object is not the one
\* _embedding_index refers to; own tells which object the thread's idx is
\* ("global": the one _embedding_index refers to, "private": inst); built
\* tells that the thread has constructed an EmbeddingIndex; image is the
\* file upload_item wrote in UPLOAD_DIR ("none", "stored", "removed").
NoLocals ==
    [op |-> "none", item_id |-> None, embedding |-> NoVec, k |-> 0,
     exclude_id |-> None, user_id |-> None, items |-> <<>>, n |-> 0,
     search_k |-> 0, cands |-> <<>>, results |-> <<>>, stop |-> FALSE,
     outcome |-> "ok", rebuilt |-> FALSE, calls |-> 0,
     before |-> [index |-> <<>>, item_ids |-> <<>>, user_map |-> {}],
     inst |-> [index |-> <<>>, item_ids |-> <<>>, user_map |-> {}],
     own |-> "none", built |-> FALSE, image |-> "none"]

Init ==
    /\ catalog = [i \in ItemIds |-> Absent]
    /\ snapshot = NoFile
    /\ ready = FALSE
    /\ index = IndexFlatIP
    /\ item_ids = <<>>
    /\ user_map = {}
    /\ last = Idle
    /\ removed = {}
    /\ pc = [t \in Threads |-> "idle"]
    /\ loc = [t \in Threads |-> NoLocals]

\* get_embedding_index(), first call of the process: EmbeddingIndex().  When
\* the constructor raises, _embedding_index stays None.
GetEmbeddingIndex(fault) ==
    /\ last = Idle
    /\ ~ready
    /\ LET r == LoadOrCreate(snapshot, catalog, fault)
       IN  /\ ready' = (r.outcome = "ok")
           /\ index' = IF r.outcome = "ok" THEN r.index ELSE IndexFlatIP
           /\ item_ids' = IF r.outcome = "ok" THEN r.item_ids ELSE <<>>
           /\ user_map' = IF r.outcome = "ok" THEN r.user_map ELSE {}
           /\ snapshot' = r.snapshot
           /\ last' = Call("load_or_create", None, NoVec, 0, None, None, r.outcome, <<>>,
                           snapshot.exists /\ fault # "db"
                             /\ Len(Query(catalog, None)) # Len(ReadIndex(snapshot)))
    /\ UNCHANGED catalog

\* idx.add_item(item_id, embedding, user_id)
AddItem(item_id, embedding, user_id, fault) ==
    /\ last = Idle
    /\ ready
    /\ Len(index) < MaxIndexLen
    /\ LET r == AddItemOp(Here, item_id, embedding, user_id, fault)
       IN  /\ index' = r.index
           /\ item_ids' = r.item_ids
           /\ user_map' = r.user_map
           /\ snapshot' = r.snapshot
           /\ last' = Call("add_item", Some(item_id), embedding, 0, None, user_id,
                           r.outcome, <<>>, FALSE)
    /\ UNCHANGED <<catalog, ready>>

\* idx.remove_item(item_id)
RemoveItem(item_id, fault) ==
    /\ last = Idle
    /\ ready
    /\ LET r == RemoveItemOp(Here, catalog, item_id, fault)
       IN  /\ index' = r.index
           /\ item_ids' = r.item_ids
           /\ user_map' = r.user_map
           /\ snapshot' = r.snapshot
           /\ last' = Call("remove_item", Some(item_id), NoVec, 0, None, None,
                           r.outcome, <<>>,
                           item_id \in Range(item_ids) /\ fault # "db")
    /\ UNCHANGED <<catalog, ready>>

\* idx.search_similar(embedding, k, exclude_id, user_id)
Search(embedding, k, exclude_id, user_id) ==
    /\ last = Idle
    /\ ready
    /\ last' = Call("search_similar", None, embedding, k, exclude_id, user_id, "ok",
                    SearchSimilar(Here, embedding, k, exclude_id, user_id), FALSE)
    /\ UNCHANGED <<catalog, snapshot, ready, index, item_ids, user_map>>

\* The caller has taken the outcome of the call.
Deliver ==
    /\ last # Idle
    /\ last' = Idle
    /\ UNCHANGED <<catalog, snapshot, ready, index, item_ids, user_map>>

\* The process ends (exit or crash); a new one starts with no index in memory.
Crash ==
    /\ last = Idle
    /\ ready
    /\ ready' = FALSE
    /\ index' = IndexFlatIP
    /\ item_ids' = <<>>
    /\ user_map' = {}
    /\ UNCHANGED <<catalog, snapshot, last>>

\* db.add(item); db.commit(): a row enters the Catalog.
CatalogInsert(id, row) ==
    /\ last = Idle
    /\ ~catalog[id].present
    /\ catalog' = [catalog EXCEPT ![id] = row]
    /\ UNCHANGED <<snapshot, ready, index, item_ids, user_map, last>>

\* db.delete(item); db.commit(): a row leaves the Catalog.
CatalogDelete(id) ==
    /\ last = Idle
    /\ catalog[id].present
    /\ catalog' = [catalog EXCEPT ![id] = Absent]
    /\ UNCHANGED <<snapshot, ready, index, item_ids, user_map, last>>

\* Arguments of the calls.
AddEmbeddings == Embeddings \cup {ShortEmbedding}

OwnerArgs == {None} \cup {Some(u) : u \in UserIds}

\* Calls on the index, failures of the Catalog and of the file, process
\* restarts and changes of the Catalog, in any order.
Next ==
    \/ \E fault \in Faults : GetEmbeddingIndex(fault) /\ UNCHANGED <<removed, pc, loc>>
    \/ \E item_id \in ItemIds, embedding \in AddEmbeddings, user_id \in OwnerArgs,
          fault \in {"none", "save"} :
            AddItem(item_id, embedding, user_id, fault) /\ UNCHANGED <<removed, pc, loc>>
    \/ \E item_id \in ItemIds, fault \in Faults :
          RemoveItem(item_id, fault) /\ UNCHANGED <<removed, pc, loc>>
    \/ Deliver /\ UNCHANGED <<removed, pc, loc>>
    \/ Crash /\ UNCHANGED <<removed, pc, loc>>
    \/ \E id \in ItemIds, row \in Rows : CatalogInsert(id, row) /\ UNCHANGED <<removed, pc, loc>>
    \/ \E id \in ItemIds : CatalogDelete(id) /\ UNCHANGED <<removed, pc, loc>>

Spec == Init /\ [][Next]_vars

\* Searches on an index that is filled by add_item and rebuilt by remove_item
\* from a Catalog of rows the application wrote; item id 0 and user id 0 are
\* arguments of add_item too.  removed follows the ids whose removal has
\* returned; an id leaves it when add_item adds it again or when a new row
\* of that id enters the Catalog.
ItemIdArgs == 0..MaxItemId

UserIdArgs == {None} \cup {Some(u) : u \in {0} \cup UserIds}

ExcludeArgs == {None} \cup {Some(i) : i \in ItemIdArgs}

SearchRows == {r \in Rows : r.user_id # None}

NextSearch ==
    \/ GetEmbeddingIndex("none") /\ UNCHANGED <<removed, pc, loc>>
    \/ \E item_id \in ItemIdArgs, embedding \in Embeddings, user_id \in UserIdArgs :
          /\ AddItem(item_id, embedding, user_id, "none")
          /\ removed' = removed \ {item_id}
          /\ UNCHANGED <<pc, loc>>
    \/ \E item_id \in ItemIdArgs :
          /\ RemoveItem(item_id, "none")
          /\ removed' = IF last'.outcome = "ok" THEN removed \cup {item_id} ELSE removed
          /\ UNCHANGED <<pc, loc>>
    \/ \E embedding \in Queries, k \in 1..MaxK, exclude_id \in ExcludeArgs,
          user_id \in OwnerArgs :
            Search(embedding, k, exclude_id, user_id) /\ UNCHANGED <<removed, pc, loc>>
    \/ Deliver /\ UNCHANGED <<removed, pc, loc>>
    \/ \E id \in ItemIds, row \in SearchRows :
          /\ CatalogInsert(id, row)
          /\ removed' = removed \ {id}
          /\ UNCHANGED <<pc, loc>>
    \/ \E id \in ItemIds : CatalogDelete(id) /\ UNCHANGED <<removed, pc, loc>>

SpecSearch == Init /\ [][NextSearch]_vars

---------------------------------------------------------------------------
\* Searches of a store that holds more items than one batch of a search for
\* one item.  The index is as a startup rebuild leaves it from a Catalog of
\* MaxStored rows: the rows up to first carry one embedding and the others
\* another, the rows after lo up to hi belong to user 2 and the others to
\* user 1.

BatchCatalog(first, lo, hi) ==
    [i \in 1..MaxStored |->
        Row(JsonDumps(IF i <= first THEN Vec(EMBEDDING_DIM, 1, 1)
                                    ELSE Vec(EMBEDDING_DIM, 2, 0)),
            Some(IF lo < i /\ i <= hi THEN 2 ELSE 1))]

InitBatch ==
    \E first \in 0..MaxStored, lo \in 0..MaxStored, hi \in 0..MaxStored :
      /\ lo <= hi
      /\ LET s == RebuildAll([index |-> IndexFlatIP, item_ids |-> <<>>,
                              user_map |-> {}, snapshot |-> NoFile,
                              outcome |-> "ok"],
                             Query(BatchCatalog(first, lo, hi), None), "none")
         IN  /\ catalog = BatchCatalog(first, lo, hi)
             /\ snapshot = s.snapshot
             /\ ready = TRUE
             /\ index = s.index
             /\ item_ids = s.item_ids
             /\ user_map = s.user_map
      /\ last = Idle
      /\ removed = {}
      /\ pc = [t \in Threads |-> "idle"]
      /\ loc = [t \in Threads |-> NoLocals]

BatchExcludeArgs == {None, Some(1), Some(MaxStored)}

NextBatch ==
    \/ \E embedding \in Queries, k \in 1..MaxK, exclude_id \in BatchExcludeArgs,
          user_id \in OwnerArgs :
            Search(embedding, k, exclude_id, user_id) /\ UNCHANGED <<removed, pc, loc>>
    \/ Deliver /\ UNCHANGED <<removed, pc, loc>>

SpecBatch == InitBatch /\ [][NextBatch]_vars

---------------------------------------------------------------------------
\* Request threads.  The handlers of main.py are run by a pool of threads, and
\* neither they nor EmbeddingIndex take a lock, so the calls of two requests
\* on the one EmbeddingIndex interleave statement by statement.  A thread is
\* at "idle" between calls and at "done" when its call has ended and the
\* caller has not yet taken the outcome.

At(t, label) == pc[t] = label

Goto(t, label) == pc' = [pc EXCEPT ![t] = label]

Store == [index |-> index, item_ids |-> item_ids, user_map |-> user_map]

\* Catalog rows that hold a well-formed embedding.
ServedRows == {r \in Rows : r.embedding_json.kind = "json"}

\* A running process: the instance was built over a Catalog of well-formed
\* rows and reconciled with it, and its file holds the store.
InitThreads ==
    /\ catalog \in [ItemIds -> ServedRows \cup {Absent}]
    /\ LET r == RebuildAll([index |-> IndexFlatIP, item_ids |-> <<>>, user_map |-> {},
                            snapshot |-> NoFile, outcome |-> "ok"],
                           Query(catalog, None), "none")
       IN  /\ index = r.index
           /\ item_ids = r.item_ids
           /\ user_map = r.user_map
           /\ snapshot = r.snapshot
    /\ ready = TRUE
    /\ last = Idle
    /\ removed = {}
    /\ pc = [t \in Threads |-> "idle"]
    /\ loc = [t \in Threads |-> NoLocals]

\* add_item is called
CallAddItem(t, item_id, embedding, user_id) ==
    /\ At(t, "idle")
    /\ loc[t].calls < MaxCalls
    /\ Len(index) < MaxIndexLen
    /\ Goto(t, "add_index")
    /\ loc' = [loc EXCEPT ![t] = [NoLocals EXCEPT !.op = "add_item",
                                    !.calls = loc[t].calls + 1,
                                    !.item_id = Some(item_id),
                                    !.embedding = embedding,
                                    !.user_id = user_id]]
    /\ UNCHANGED <<catalog, snapshot, ready, index, item_ids, user_map, last, removed>>

\* add_item: vec = ...; faiss.normalize_L2(vec); self.index.add(vec)
AddIndex(t) ==
    /\ At(t, "add_index")
    /\ LET vec == Normalize(loc[t].embedding)
       IN  IF IndexAccepts(vec)
           THEN /\ index' = IndexAdd(index, vec)
                /\ Goto(t, "add_ids")
                /\ UNCHANGED loc
           ELSE /\ Goto(t, "done")
                /\ loc' = [loc EXCEPT ![t].outcome = "DimensionMismatch"]
                /\ UNCHANGED index
    /\ UNCHANGED <<catalog, snapshot, ready, item_ids, user_map, last, removed>>

\* add_item: self.item_ids.append(item_id)
AddIds(t) ==
    /\ At(t, "add_ids")
    /\ item_ids' = Append(item_ids, loc[t].item_id[1])
    /\ Goto(t, "add_owner")
    /\ UNCHANGED <<catalog, snapshot, ready, index, user_map, last, removed, loc>>

\* add_item: if user_id: self.user_map[item_id] = user_id
AddOwner(t) ==
    /\ At(t, "add_owner")
    /\ user_map' = IF Truthy(loc[t].user_id)
                   THEN MapSet(user_map, loc[t].item_id[1], loc[t].user_id[1])
                   ELSE user_map
    /\ Goto(t, "add_save")
    /\ UNCHANGED <<catalog, snapshot, ready, index, item_ids, last, removed, loc>>

\* add_item: self._save()
AddSave(t) ==
    /\ At(t, "add_save")
    /\ snapshot' = Save(Here, "none").snapshot
    /\ Goto(t, "done")
    /\ UNCHANGED <<catalog, ready, index, item_ids, user_map, last, removed, loc>>

\* remove_item is called
CallRemoveItem(t, item_id) ==
    /\ At(t, "idle")
    /\ loc[t].calls < MaxCalls
    /\ Goto(t, "rm_check")
    /\ loc' = [loc EXCEPT ![t] = [NoLocals EXCEPT !.op = "remove_item",
                                    !.calls = loc[t].calls + 1,
                                    !.item_id = Some(item_id)]]
    /\ UNCHANGED <<catalog, snapshot, ready, index, item_ids, user_map, last, removed>>

\* remove_item: if item_id in self.item_ids
RmCheck(t) ==
    /\ At(t, "rm_check")
    /\ IF loc[t].item_id[1] \in Range(item_ids)
       THEN Goto(t, "rm_query")
       ELSE Goto(t, "rm_owner")
    /\ UNCHANGED <<catalog, snapshot, ready, index, item_ids, user_map, last, removed, loc>>

\* _rebuild_without: the query for every other embedding-bearing row; the
\* rebuild starts from the store as it is now.
RmQuery(t) ==
    /\ At(t, "rm_query")
    /\ loc' = [loc EXCEPT ![t].items = Query(catalog, loc[t].item_id),
                          ![t].n = 1,
                          ![t].rebuilt = TRUE,
                          ![t].before = Store]
    /\ Goto(t, "rb_index")
    /\ UNCHANGED <<catalog, snapshot, ready, index, item_ids, user_map, last, removed>>

\* _rebuild_all: self.index = faiss.IndexFlatIP(EMBEDDING_DIM)
RbIndex(t) ==
    /\ At(t, "rb_index")
    /\ index' = IndexFlatIP
    /\ Goto(t, "rb_ids")
    /\ UNCHANGED <<catalog, snapshot, ready, item_ids, user_map, last, removed, loc>>

\* _rebuild_all: self.item_ids = []
RbIds(t) ==
    /\ At(t, "rb_ids")
    /\ item_ids' = <<>>
    /\ Goto(t, "rb_map")
    /\ UNCHANGED <<catalog, snapshot, ready, index, user_map, last, removed, loc>>

\* _rebuild_all: self.user_map = {}
RbMap(t) ==
    /\ At(t, "rb_map")
    /\ user_map' = {}
    /\ Goto(t, "rb_visit")
    /\ UNCHANGED <<catalog, snapshot, ready, index, item_ids, last, removed, loc>>

\* _rebuild_all: `for item in items`, and for an item that has an embedding
\* json.loads, normalize_L2 and self.index.add(vec)
RbVisit(t) ==
    /\ At(t, "rb_visit")
    /\ IF loc[t].n > Len(loc[t].items)
       THEN /\ Goto(t, "rb_save")
            /\ UNCHANGED <<index, loc>>
       ELSE LET item == loc[t].items[loc[t].n]
                embedding == JsonLoads(item.embedding_json)
                vec == Normalize(embedding.value)
            IN  IF item.embedding_json.kind = "null"
                THEN /\ loc' = [loc EXCEPT ![t].n = @ + 1]
                     /\ UNCHANGED <<index, pc>>
                ELSE IF ~embedding.ok \/ ~IndexAccepts(vec)
                THEN /\ Goto(t, "done")
                     /\ loc' = [loc EXCEPT ![t].outcome =
                                  IF ~embedding.ok THEN "JSONDecodeError"
                                  ELSE "DimensionMismatch"]
                     /\ UNCHANGED index
                ELSE /\ index' = IndexAdd(index, vec)
                     /\ Goto(t, "rb_append")
                     /\ UNCHANGED loc
    /\ UNCHANGED <<catalog, snapshot, ready, item_ids, user_map, last, removed>>

\* _rebuild_all: self.item_ids.append(item.id)
RbAppend(t) ==
    /\ At(t, "rb_append")
    /\ item_ids' = Append(item_ids, loc[t].items[loc[t].n].id)
    /\ Goto(t, "rb_owner")
    /\ UNCHANGED <<catalog, snapshot, ready, index, user_map, last, removed, loc>>

\* _rebuild_all: if item.user_id: self.user_map[item.id] = item.user_id, and
\* on to the next item
RbOwner(t) ==
    /\ At(t, "rb_owner")
    /\ LET item == loc[t].items[loc[t].n]
       IN  user_map' = IF Truthy(item.user_id)
                       THEN MapSet(user_map, item.id, item.user_id[1])
                       ELSE user_map
    /\ loc' = [loc EXCEPT ![t].n = @ + 1]
    /\ Goto(t, "rb_visit")
    /\ UNCHANGED <<catalog, snapshot, ready, index, item_ids, last, removed>>

\* _rebuild_all: self._save()
RbSave(t) ==
    /\ At(t, "rb_save")
    /\ snapshot' = Save(Here, "none").snapshot
    /\ Goto(t, "rm_owner")
    /\ UNCHANGED <<catalog, ready, index, item_ids, user_map, last, removed, loc>>

\* remove_item: if item_id in self.user_map: del self.user_map[item_id]
RmOwner(t) ==
    /\ At(t, "rm_owner")
    /\ user_map' = MapDel(user_map, loc[t].item_id[1])
    /\ Goto(t, "done")
    /\ UNCHANGED <<catalog, snapshot, ready, index, item_ids, last, removed, loc>>

\* search_similar is called
CallSearch(t, embedding, k, exclude_id, user_id) ==
    /\ At(t, "idle")
    /\ loc[t].calls < MaxCalls
    /\ Goto(t, "s_empty")
    /\ loc' = [loc EXCEPT ![t] = [NoLocals EXCEPT !.op = "search_similar",
                                    !.calls = loc[t].calls + 1,
                                    !.embedding = embedding, !.k = k,
                                    !.exclude_id = exclude_id,
                                    !.user_id = user_id]]
    /\ UNCHANGED <<catalog, snapshot, ready, index, item_ids, user_map, last, removed>>

\* search_similar: if self.index.ntotal == 0: return []
SearchEmpty(t) ==
    /\ At(t, "s_empty")
    /\ IF Len(index) = 0 THEN Goto(t, "done") ELSE Goto(t, "s_k")
    /\ UNCHANGED <<catalog, snapshot, ready, index, item_ids, user_map, last, removed, loc>>

\* search_similar: search_k = min(k * 10, self.index.ntotal)
SearchK(t) ==
    /\ At(t, "s_k")
    /\ loc' = [loc EXCEPT ![t].search_k = Min(loc[t].k * OVERFETCH, Len(index))]
    /\ Goto(t, "s_search")
    /\ UNCHANGED <<catalog, snapshot, ready, index, item_ids, user_map, last, removed>>

\* search_similar: scores, indices = self.index.search(vec, search_k)
SearchIndex(t) ==
    /\ At(t, "s_search")
    /\ loc' = [loc EXCEPT ![t].cands = IndexSearch(index, Normalize(loc[t].embedding),
                                                   loc[t].search_k),
                          ![t].n = 1]
    /\ Goto(t, "s_visit")
    /\ UNCHANGED <<catalog, snapshot, ready, index, item_ids, user_map, last, removed>>

\* search_similar: one turn of the loop over the candidates, reading item_ids
\* and user_map as they are now
SearchCandidate(t) ==
    /\ At(t, "s_visit")
    /\ IF loc[t].n > Len(loc[t].cands) \/ loc[t].stop
       THEN /\ Goto(t, "done")
            /\ UNCHANGED loc
       ELSE LET st == SearchVisit([results |-> loc[t].results, stop |-> loc[t].stop],
                                  loc[t].cands[loc[t].n], item_ids, user_map,
                                  loc[t].k, loc[t].exclude_id, loc[t].user_id)
            IN  /\ loc' = [loc EXCEPT ![t].results = st.results,
                                      ![t].stop = st.stop,
                                      ![t].n = @ + 1]
                /\ UNCHANGED pc
    /\ UNCHANGED <<catalog, snapshot, ready, index, item_ids, user_map, last, removed>>

\* the caller takes the outcome of the call
Return(t) ==
    /\ At(t, "done")
    /\ Goto(t, "idle")
    /\ loc' = [loc EXCEPT ![t] = [NoLocals EXCEPT !.calls = loc[t].calls]]
    /\ UNCHANGED <<catalog, snapshot, ready, index, item_ids, user_map, last, removed>>

ThreadQueries == {Vec(EMBEDDING_DIM, 1, 0)}

NextThreads ==
    \/ \E t \in Threads, item_id \in ItemIds, embedding \in Embeddings :
          CallAddItem(t, item_id, embedding, None)
    \/ \E t \in Threads : AddIndex(t)
    \/ \E t \in Threads : AddIds(t)
    \/ \E t \in Threads : AddOwner(t)
    \/ \E t \in Threads : AddSave(t)
    \/ \E t \in Threads, item_id \in ItemIds : CallRemoveItem(t, item_id)
    \/ \E t \in Threads : RmCheck(t)
    \/ \E t \in Threads : RmQuery(t)
    \/ \E t \in Threads : RbIndex(t)
    \/ \E t \in Threads : RbIds(t)
    \/ \E t \in Threads : RbMap(t)
    \/ \E t \in Threads : RbVisit(t)
    \/ \E t \in Threads : RbAppend(t)
    \/ \E t \in Threads : RbOwner(t)
    \/ \E t \in Threads : RbSave(t)
    \/ \E t \in Threads : RmOwner(t)
    \/ \E t \in Threads, embedding \in ThreadQueries, k \in 1..MaxK,
             user_id \in {None, Some(2)} :
          CallSearch(t, embedding, k, None, user_id)
    \/ \E t \in Threads : SearchEmpty(t)
    \/ \E t \in Threads : SearchK(t)
    \/ \E t \in Threads : SearchIndex(t)
    \/ \E t \in Threads : SearchCandidate(t)
    \/ \E t \in Threads : Return(t)

SpecThreads == InitThreads /\ [][NextThreads]_vars

---------------------------------------------------------------------------
\* The request handlers of main.py.  A handler works on the Catalog through
\* its own session and on the one EmbeddingIndex; its statements interleave
\* with those of the other requests.  Here every call on the index runs
\* without interruption, so that what is observed comes from the order of
\* the handlers' statements alone.  A thread is at "idle" between requests.

\* db.add(item); db.commit(); db.refresh(item): the id the table gives a new
\* row, one more than the highest id in use.
NextId == IF \E i \in DOMAIN catalog : catalog[i].present
          THEN (CHOOSE i \in DOMAIN catalog :
                  /\ catalog[i].present
                  /\ \A j \in DOMAIN catalog : catalog[j].present => j <= i) + 1
          ELSE 1

Finish(t) ==
    /\ Goto(t, "idle")
    /\ loc' = [loc EXCEPT ![t] = [NoLocals EXCEPT !.calls = loc[t].calls,
                                              !.built = loc[t].built]]

\* add_item_from_url, upload_item: the row of the new item is committed
AddCommit(t, embedding, user_id) ==
    /\ At(t, "idle")
    /\ loc[t].calls < MaxCalls
    /\ NextId \in ItemIds
    /\ catalog' = [catalog EXCEPT ![NextId] = Row(JsonDumps(embedding), Some(user_id))]
    /\ Goto(t, "h_add")
    /\ loc' = [loc EXCEPT ![t] = [NoLocals EXCEPT !.op = "add_item",
                                    !.calls = loc[t].calls + 1,
                                    !.item_id = Some(NextId),
                                    !.embedding = embedding,
                                    !.user_id = Some(user_id)]]
    /\ UNCHANGED <<snapshot, ready, index, item_ids, user_map, last, removed>>

\* add_item_from_url, upload_item: idx.add_item(item.id, embedding, user_id=user.id),
\* and the response
AddFaiss(t) ==
    /\ At(t, "h_add")
    /\ LET r == AddItemOp(Here, loc[t].item_id[1], loc[t].embedding, loc[t].user_id, "none")
       IN  /\ index' = r.index
           /\ item_ids' = r.item_ids
           /\ user_map' = r.user_map
           /\ snapshot' = r.snapshot
    /\ Finish(t)
    /\ UNCHANGED <<catalog, ready, last, removed>>

\* delete_item: the row of the user's item is found
DeleteFetch(t, item_id) ==
    /\ At(t, "idle")
    /\ loc[t].calls < MaxCalls
    /\ catalog[item_id].present
    /\ catalog[item_id].user_id # None
    /\ Goto(t, "h_remove")
    /\ loc' = [loc EXCEPT ![t] = [NoLocals EXCEPT !.op = "remove_item",
                                    !.calls = loc[t].calls + 1,
                                    !.item_id = Some(item_id)]]
    /\ UNCHANGED <<catalog, snapshot, ready, index, item_ids, user_map, last, removed>>

\* delete_item: idx.remove_item(item_id)
DeleteFaiss(t) ==
    /\ At(t, "h_remove")
    /\ LET r == RemoveItemOp(Here, catalog, loc[t].item_id[1], "none")
       IN  /\ index' = r.index
           /\ item_ids' = r.item_ids
           /\ user_map' = r.user_map
           /\ snapshot' = r.snapshot
    /\ Goto(t, "h_delete")
    /\ UNCHANGED <<catalog, ready, last, removed, loc>>

\* delete_item: db.delete(item); db.commit(), and the response
DeleteCommit(t) ==
    /\ At(t, "h_delete")
    /\ catalog' = [catalog EXCEPT ![loc[t].item_id[1]] = Absent]
    /\ Finish(t)
    /\ UNCHANGED <<snapshot, ready, index, item_ids, user_map, last, removed>>

\* find_similar: the user's item is found and
\* idx.search_similar(embedding, k=k, exclude_id=item_id, user_id=user.id)
FindSimilar(item_id, k) ==
    /\ catalog[item_id].present
    /\ catalog[item_id].user_id # None
    /\ JsonLoads(catalog[item_id].embedding_json).ok
    /\ LET embedding == JsonLoads(catalog[item_id].embedding_json).value
       IN  last' = Call("search_similar", None, embedding, k, Some(item_id),
                        catalog[item_id].user_id, "ok",
                        SearchSimilar(Here, embedding, k, Some(item_id),
                                      catalog[item_id].user_id),
                        FALSE)
    /\ UNCHANGED <<catalog, snapshot, ready, index, item_ids, user_map, removed, pc, loc>>

NextRequests ==
    \/ \E t \in Threads, embedding \in Embeddings, user_id \in UserIds :
          AddCommit(t, embedding, user_id)
    \/ \E t \in Threads : AddFaiss(t)
    \/ \E t \in Threads, item_id \in ItemIds : DeleteFetch(t, item_id)
    \/ \E t \in Threads : DeleteFaiss(t)
    \/ \E t \in Threads : DeleteCommit(t)
    \/ \E item_id \in ItemIds, k \in 1..MaxK : FindSimilar(item_id, k)

SpecRequests == InitThreads /\ [][NextRequests]_vars

---------------------------------------------------------------------------
\* get_embedding_index in a process that has just started: _embedding_index
\* is None, and the first requests arrive on several threads.  The fields
\* index, item_ids and user_map are those of the object _embedding_index
\* refers to; an object that _embedding_index does not refer to lives in the
\* inst of the threads that hold it.

\* The process starts over the Catalog and the file an earlier process left.
InitSingleton ==
    /\ catalog \in [ItemIds -> ServedRows \cup {Absent}]
    /\ snapshot = RebuildAll([index |-> IndexFlatIP, item_ids |-> <<>>, user_map |-> {},
                              snapshot |-> NoFile, outcome |-> "ok"],
                             Query(catalog, None), "none").snapshot
    /\ ready = FALSE
    /\ index = IndexFlatIP
    /\ item_ids = <<>>
    /\ user_map = {}
    /\ last = Idle
    /\ removed = {}
    /\ pc = [t \in Threads |-> "idle"]
    /\ loc = [t \in Threads |-> NoLocals]

\* a handler calls get_embedding_index(): if _embedding_index is None
GetCheck(t) ==
    /\ At(t, "idle")
    /\ loc[t].calls < MaxCalls
    /\ IF ready THEN Goto(t, "g_return") ELSE Goto(t, "g_new")
    /\ loc' = [loc EXCEPT ![t].calls = @ + 1]
    /\ UNCHANGED <<catalog, snapshot, ready, index, item_ids, user_map, last, removed>>

\* EmbeddingIndex(): the object is constructed from the file and the Catalog
GetConstruct(t) ==
    /\ At(t, "g_new")
    /\ LET r == LoadOrCreate(snapshot, catalog, "none")
       IN  /\ loc' = [loc EXCEPT ![t].inst = [index |-> r.index, item_ids |-> r.item_ids,
                                              user_map |-> r.user_map],
                                 ![t].built = TRUE]
           /\ snapshot' = r.snapshot
    /\ Goto(t, "g_assign")
    /\ UNCHANGED <<catalog, ready, index, item_ids, user_map, last, removed>>

\* _embedding_index = <the new object>.  The object _embedding_index referred
\* to stays with the threads that hold it.
GetAssign(t) ==
    /\ At(t, "g_assign")
    /\ ready' = TRUE
    /\ index' = loc[t].inst.index
    /\ item_ids' = loc[t].inst.item_ids
    /\ user_map' = loc[t].inst.user_map
    /\ loc' = [u \in Threads |->
                 IF u # t /\ loc[u].own = "global"
                 THEN [loc[u] EXCEPT !.own = "private", !.inst = Store]
                 ELSE loc[u]]
    /\ Goto(t, "g_return")
    /\ UNCHANGED <<catalog, snapshot, last, removed>>

\* return _embedding_index: the handler's idx is the object the name refers
\* to now
GetReturn(t) ==
    /\ At(t, "g_return")
    /\ loc' = [loc EXCEPT ![t].own = "global"]
    /\ Goto(t, "h_idx")
    /\ UNCHANGED <<catalog, snapshot, ready, index, item_ids, user_map, last, removed>>

\* idx.add_item(item_id, embedding, user_id) on the handler's idx, and the
\* response
AddOnIdx(t, item_id, embedding, user_id) ==
    /\ At(t, "h_idx")
    /\ IF loc[t].own = "global"
       THEN LET r == AddItemOp(Here, item_id, embedding, user_id, "none")
            IN  /\ index' = r.index
                /\ item_ids' = r.item_ids
                /\ user_map' = r.user_map
                /\ snapshot' = r.snapshot
                /\ pc' = [pc EXCEPT ![t] = "idle"]
                /\ loc' = [loc EXCEPT ![t].own = "none", ![t].item_id = Some(item_id)]
       ELSE LET r == AddItemOp([index |-> loc[t].inst.index,
                                item_ids |-> loc[t].inst.item_ids,
                                user_map |-> loc[t].inst.user_map,
                                snapshot |-> snapshot, outcome |-> "ok"],
                               item_id, embedding, user_id, "none")
            IN  /\ snapshot' = r.snapshot
                /\ pc' = [pc EXCEPT ![t] = "lost"]
                /\ loc' = [loc EXCEPT ![t].inst = [index |-> r.index,
                                                   item_ids |-> r.item_ids,
                                                   user_map |-> r.user_map],
                                      ![t].item_id = Some(item_id)]
                /\ UNCHANGED <<index, item_ids, user_map>>
    /\ UNCHANGED <<catalog, ready, last, removed>>

NextSingleton ==
    \/ \E t \in Threads : GetCheck(t)
    \/ \E t \in Threads : GetConstruct(t)
    \/ \E t \in Threads : GetAssign(t)
    \/ \E t \in Threads : GetReturn(t)
    \/ \E t \in Threads, item_id \in ItemIds, embedding \in Embeddings, user_id \in OwnerArgs :
          AddOnIdx(t, item_id, embedding, user_id)

SpecSingleton == InitSingleton /\ [][NextSingleton]_vars

---------------------------------------------------------------------------
\* upload_item.  It is a coroutine that does not await after it has read
\* the upload, so one upload runs at a time.  failed names the statement the
\* environment makes raise.  A thread is at "u_done" when the response has
\* been sent and the caller has not yet taken it.

\* with open(filepath, "wb") as f: f.write(contents)
UploadStore(t, embedding) ==
    /\ \A u \in Threads : pc[u] \in {"idle", "u_done"}
    /\ At(t, "idle")
    /\ loc[t].calls < MaxCalls
    /\ NextId \in ItemIds
    /\ Goto(t, "u_classify")
    /\ loc' = [loc EXCEPT ![t] = [NoLocals EXCEPT !.op = "upload_item",
                                    !.calls = loc[t].calls + 1,
                                    !.embedding = embedding,
                                    !.image = "stored"]]
    /\ UNCHANGED <<catalog, snapshot, ready, index, item_ids, user_map, last, removed>>

\* classification = classify_clothing(filepath);
\* embedding = get_image_embedding(filepath)
UploadClassify(t, failed) ==
    /\ At(t, "u_classify")
    /\ IF failed
       THEN /\ Goto(t, "u_except")
            /\ loc' = [loc EXCEPT ![t].outcome = "ClassificationError"]
       ELSE /\ Goto(t, "u_commit")
            /\ UNCHANGED loc
    /\ UNCHANGED <<catalog, snapshot, ready, index, item_ids, user_map, last, removed>>

\* item = ClothingItem(...); db.add(item); db.commit(); db.refresh(item)
UploadCommit(t, user_id, failed) ==
    /\ At(t, "u_commit")
    /\ IF failed
       THEN /\ Goto(t, "u_except")
            /\ loc' = [loc EXCEPT ![t].outcome = "CommitError"]
            /\ UNCHANGED catalog
       ELSE /\ catalog' = [catalog EXCEPT
                             ![NextId] = Row(JsonDumps(loc[t].embedding), Some(user_id))]
            /\ Goto(t, "u_add")
            /\ loc' = [loc EXCEPT ![t].item_id = Some(NextId),
                                  ![t].user_id = Some(user_id)]
    /\ UNCHANGED <<snapshot, ready, index, item_ids, user_map, last, removed>>

\* idx.add_item(item.id, embedding, user_id=user.id), and the response when
\* it returns
UploadAdd(t, fault) ==
    /\ At(t, "u_add")
    /\ LET r == AddItemOp(Here, loc[t].item_id[1], loc[t].embedding, loc[t].user_id, fault)
       IN  /\ index' = r.index
           /\ item_ids' = r.item_ids
           /\ user_map' = r.user_map
           /\ snapshot' = r.snapshot
           /\ loc' = [loc EXCEPT ![t].outcome = r.outcome]
           /\ IF r.outcome = "ok" THEN Goto(t, "u_done") ELSE Goto(t, "u_except")
    /\ UNCHANGED <<catalog, ready, last, removed>>

\* except Exception: if os.path.exists(filepath): os.remove(filepath);
\* raise HTTPException(status_code=500)
UploadExcept(t) ==
    /\ At(t, "u_except")
    /\ loc' = [loc EXCEPT ![t].image = "removed"]
    /\ Goto(t, "u_done")
    /\ UNCHANGED <<catalog, snapshot, ready, index, item_ids, user_map, last, removed>>

\* the caller has the response
UploadReturn(t) ==
    /\ At(t, "u_done")
    /\ Finish(t)
    /\ UNCHANGED <<catalog, snapshot, ready, index, item_ids, user_map, last, removed>>

NextUpload ==
    \/ \E t \in Threads, embedding \in AddEmbeddings : UploadStore(t, embedding)
    \/ \E t \in Threads, failed \in BOOLEAN : UploadClassify(t, failed)
    \/ \E t \in Threads, user_id \in UserIds, failed \in BOOLEAN :
          UploadCommit(t, user_id, failed)
    \/ \E t \in Threads, fault \in {"none", "save"} : UploadAdd(t, fault)
    \/ \E t \in Threads : UploadExcept(t)
    \/ \E t \in Threads : UploadReturn(t)

SpecUpload == InitThreads /\ [][NextUpload]_vars

---------------------------------------------------------------------------
\* The claims.

\* The embedding-bearing rows of the Catalog, and whether _rebuild_all can
\* index a row.
CatalogIds == EmbeddingBearingIds(catalog, None)

Indexable(row) ==
    /\ JsonLoads(row.embedding_json).ok
    /\ IndexAccepts(Normalize(JsonLoads(row.embedding_json).value))

\* No call is in progress on any request thread.
Quiescent == \A t \in Threads : pc[t] \in {"idle", "done"}

\* Thread t has run the first statement of its call and has not ended it.
Inside(t) ==
    pc[t] \in {"add_ids", "add_owner", "add_save",
               "rm_query", "rb_index", "rb_ids", "rb_map", "rb_visit",
               "rb_append", "rb_owner", "rb_save", "rm_owner",
               "s_k", "s_search", "s_visit"}

Writer(t) == loc[t].op \in {"add_item", "remove_item"}

\* C1 (as claimed): whenever the index is Ready and every add_item and
\* remove_item has returned or raised, item_ids has as many entries as the
\* store has vectors.
C1_LenMatches == (ready /\ Quiescent) => Len(item_ids) = Len(index)

\* C1 for calls that run one at a time: the same equality after every call.
C1_LenMatchesSerial == ready => Len(item_ids) = Len(index)

\* C2 (as claimed): a search with an owner filter returns no item whose
\* recorded owner is another user.  Looked at when no call is in progress:
\* user_map is then what the calls have recorded.
C2_OwnershipIsolation ==
    Quiescent =>
        \A t \in Threads :
            (loc[t].op = "search_similar" /\ pc[t] = "done" /\ loc[t].user_id # None)
              => \A n \in 1..Len(loc[t].results) :
                    MapGet(user_map, loc[t].results[n].item_id) \in {None, loc[t].user_id}

\* C2 for calls that run one at a time: a search with an owner filter returns
\* no item whose recorded owner is another user (items without a recorded
\* owner may be returned); a search without an owner filter returns what it
\* would return were no owner recorded at all.
C2_OwnershipIsolationSerial ==
    last.op = "search_similar"
      => IF last.user_id # None
         THEN \A n \in 1..Len(last.result) :
                 MapGet(user_map, last.result[n].item_id) \in {None, last.user_id}
         ELSE last.result = SearchSimilar([Here EXCEPT !.user_map = {}], last.embedding,
                                          last.k, last.exclude_id, None)

\* C3 (as claimed): once remove_item(id) has returned, no search returns id
\* unless id is added again.
C3_RemovedStaysGone ==
    last.op = "search_similar"
      => \A n \in 1..Len(last.result) : last.result[n].item_id \notin removed

\* C4 (as claimed): remove_item of a present id makes the store exactly one
\* vector smaller, whatever the Catalog holds; of an absent id it leaves the
\* size as it was.
C4_RemoveShrinksByOne ==
    [][(last'.op = "remove_item" /\ last'.outcome = "ok")
         => Len(index') = IF last'.item_id[1] \in Range(item_ids)
                          THEN Len(index) - 1
                          ELSE Len(index)]_vars

C6_FailedRebuildKeepsState ==
    [][(/\ last'.op = "remove_item"
        /\ last'.outcome \in {"CatalogReadError", "JSONDecodeError", "DimensionMismatch"})
         => UNCHANGED <<index, item_ids, user_map>>]_vars

\* C7 (as claimed): a search that runs while remove_item rebuilds sees the
\* whole store of before the rebuild or the whole store of after it.  With
\* these two the only calls made, what the search returns is what it returns
\* on the store the rebuild started from or on the store it left.
C7_AtomicPublication ==
    \A t \in Threads, u \in Threads :
        (/\ pc[t] = "done" /\ loc[t].op = "search_similar"
         /\ pc[u] = "done" /\ loc[u].op = "remove_item"
         /\ loc[u].rebuilt /\ loc[u].outcome = "ok"
         /\ \A w \in Threads : loc[w].calls = IF w \in {t, u} THEN 1 ELSE 0)
          => loc[t].results \in
                {SearchSimilar(loc[u].before, loc[t].embedding, loc[t].k,
                               loc[t].exclude_id, loc[t].user_id),
                 SearchSimilar(Store, loc[t].embedding, loc[t].k,
                               loc[t].exclude_id, loc[t].user_id)}

\* C8 (as claimed): while an add_item or a remove_item is under way no other
\* call on the index is under way; only searches overlap.
C8_WriterExclusion ==
    \A t \in Threads, u \in Threads :
        (t # u /\ Inside(t) /\ Inside(u)) => (~Writer(t) /\ ~Writer(u))

\* C9: add_item with an embedding of another length than EMBEDDING_DIM raises
\* and leaves the store, item_ids, user_map and the snapshot unchanged.
C9_WrongLengthRejected ==
    [][(last'.op = "add_item" /\ last'.embedding.dim # EMBEDDING_DIM)
         => /\ last'.outcome = "DimensionMismatch"
            /\ UNCHANGED <<index, item_ids, user_map, snapshot>>]_vars

\* An add_item of a short embedding has raised on an index that holds vectors.
C9_Witness ==
    /\ last.op = "add_item"
    /\ last.embedding.dim # EMBEDDING_DIM
    /\ last.outcome = "DimensionMismatch"
    /\ Len(index) > 0
    /\ snapshot.exists

\* C10: after an add_item that returned, a remove_item of a present id that
\* returned, and a load_or_create that rebuilt and returned, the snapshot file
\* holds exactly the vectors of the store, in the same order.
C10_SnapshotMatchesStore ==
    (/\ last.outcome = "ok"
     /\ \/ last.op = "add_item"
        \/ last.op \in {"remove_item", "load_or_create"} /\ last.rebuilt)
      => snapshot.exists /\ ReadIndex(snapshot) = index

\* A remove_item has rebuilt a store of two vectors into a store of one and
\* written it.
C10_Witness ==
    /\ last.op = "remove_item"
    /\ last.rebuilt
    /\ last.outcome = "ok"
    /\ Len(index) = 1
    /\ snapshot = WriteIndex(index)

\* What add_item does to memory when its snapshot write fails: the vector,
\* the id and the owner are in, the file is as it was.
FailedAddKeepsItem ==
    (last'.op = "add_item" /\ last'.outcome = "PersistenceFailure")
      => /\ index' = Append(index, Normalize(last'.embedding))
         /\ item_ids' = Append(item_ids, last'.item_id[1])
         /\ last'.user_id # None => MapGet(user_map', last'.item_id[1]) = last'.user_id
         /\ snapshot' = snapshot

\* C11 (as claimed): a failed snapshot write of add_item is raised to the
\* caller with the item already in memory, and the next add_item or
\* remove_item that returns leaves the file equal to the store again.
C11_InconsistentUntilNextCall ==
    [][/\ FailedAddKeepsItem
       /\ (/\ snapshot # WriteIndex(index)
           /\ Len(index) > 0
           /\ last'.op \in {"add_item", "remove_item"}
           /\ last'.outcome = "ok")
            => snapshot' = WriteIndex(index')]_vars

\* C11 (amended): as claimed, for the next add_item that returns and the next
\* remove_item of an indexed id that returns; a remove_item of an id that is
\* not indexed returns without writing the file.
C11_InconsistentUntilNextMutation ==
    [][/\ FailedAddKeepsItem
       /\ (/\ snapshot # WriteIndex(index)
           /\ Len(index) > 0
           /\ last'.outcome = "ok"
           /\ \/ last'.op = "add_item"
              \/ last'.op = "remove_item" /\ last'.rebuilt)
            => snapshot' = WriteIndex(index')
       /\ (/\ last'.op = "remove_item"
           /\ last'.outcome = "ok"
           /\ ~last'.rebuilt)
            => snapshot' = snapshot]_vars

\* An add_item has raised on its snapshot write: the store holds two vectors,
\* the owner of the new item is recorded, and the file holds one vector.
C11_Witness ==
    /\ last.op = "add_item"
    /\ last.outcome = "PersistenceFailure"
    /\ last.user_id # None
    /\ Len(index) = 2
    /\ snapshot.exists
    /\ Len(ReadIndex(snapshot)) = 1

\* The store that holds the rows ids of the Catalog in ascending order.
RECURSIVE VectorsOf(_, _)
VectorsOf(cat, ids) ==
    IF ids = <<>> THEN <<>>
    ELSE <<Normalize(JsonLoads(cat[Head(ids)].embedding_json).value)>>
           \o VectorsOf(cat, Tail(ids))

\* The index holds exactly the embedding-bearing rows of the Catalog, each id
\* at the ordinal of its own embedding.
MatchesCatalog ==
    /\ item_ids = Ascending(CatalogIds)
    /\ index = VectorsOf(catalog, item_ids)

\* What a crash of add_item between its additions and _save leaves behind:
\* the row of the new item is in the Catalog (the handlers commit it before
\* they call add_item), every row can be indexed, and the file is what the
\* index last wrote for the other rows, or is not there when the index has
\* never written it.
CrashedBeforePersist ==
    /\ ~ready
    /\ \A i \in CatalogIds : Indexable(catalog[i])
    /\ \E id \in CatalogIds :
          LET others == Ascending(EmbeddingBearingIds(catalog, Some(id)))
          IN  \/ snapshot = WriteIndex(VectorsOf(catalog, others))
              \/ others = <<>> /\ snapshot = NoFile

\* C12 (as claimed): the load_or_create that follows a crash between the
\* additions of add_item and its snapshot write leaves the index holding
\* exactly the Catalog's embedding-bearing items, each id with its own
\* embedding.
C12_CrashRecovery ==
    [][(/\ CrashedBeforePersist
        /\ last'.op = "load_or_create"
        /\ last'.outcome = "ok")
         => MatchesCatalog']_vars

\* C12 where the file exists: the same recovery whenever the index had
\* written its file before the crash.
C12_CrashRecoveryWithFile ==
    [][(/\ CrashedBeforePersist
        /\ snapshot.exists
        /\ last'.op = "load_or_create"
        /\ last'.outcome = "ok")
         => MatchesCatalog']_vars

\* The score of a vector with itself, the highest there is.
MaxScore == [num |-> 1, den |-> 1]

\* The lowest ordinal (1-based) at which the store holds vec.
FirstOrdinal(ix, vec) == CHOOSE n \in 1..Len(ix) : ix[n] = vec /\ \A m \in 1..(n - 1) : ix[m] # vec

C14_LengthBounded ==
    (last.op = "search_similar" /\ last.k >= 1)
      => /\ last.outcome = "ok"
         /\ Len(last.result) <= Min(last.k, Len(index))
         /\ Len(index) = 0 => last.result = <<>>

\* A search for two items on a store of one has returned that one.
C14_Witness ==
    /\ last.op = "search_similar"
    /\ last.k = 2
    /\ Len(index) = 1
    /\ Len(last.result) = 1

\* C15: remove_item of an id that is not in item_ids returns without error,
\* whether or not the Catalog can be read and the file written, and leaves
\* the store, item_ids, the file and the owner of every indexed item as they
\* were.
C15_RemoveAbsentIsNoOp ==
    [][(last'.op = "remove_item" /\ last'.item_id[1] \notin Range(item_ids))
         => /\ last'.outcome = "ok"
            /\ UNCHANGED <<index, item_ids, snapshot>>
            /\ \A i \in Range(item_ids) : MapGet(user_map', i) = MapGet(user_map, i)]_vars

\* A remove_item of an id that is not indexed has returned on an index that
\* holds an owned item and differs from the Catalog and from its file.
C15_Witness ==
    /\ last.op = "remove_item"
    /\ last.outcome = "ok"
    /\ last.item_id[1] \notin Range(item_ids)
    /\ Len(index) = 1
    /\ user_map # {}
    /\ CatalogIds # Range(item_ids)
    /\ snapshot # WriteIndex(index)

\* s is strictly ascending.
StrictlyAscending(s) == \A m \in 1..Len(s), n \in 1..Len(s) : m < n => s[m] < s[n]

\* C16 (as claimed): when remove_item calls that rebuilt the index are the
\* only calls made and all have returned, item_ids is strictly ascending and
\* holds only embedding-bearing ids of the Catalog.
C16_RebuildOrderCanonical ==
    (/\ \E t \in Threads : loc[t].calls > 0
     /\ \A t \in Threads :
           \/ loc[t].calls = 0
           \/ /\ pc[t] = "done" /\ loc[t].op = "remove_item"
              /\ loc[t].calls = 1
              /\ loc[t].rebuilt /\ loc[t].outcome = "ok")
      => /\ StrictlyAscending(item_ids)
         /\ Range(item_ids) \subseteq CatalogIds

\* C16 for calls that run one at a time: after a rebuild by remove_item or by
\* load_or_create that returned, item_ids is the ascending sequence of the
\* Catalog's embedding-bearing ids, without the removed id.
C16_RebuildOrderCanonicalSerial ==
    (last.rebuilt /\ last.outcome = "ok")
      => item_ids = Ascending(EmbeddingBearingIds(catalog, last.item_id))

\* C17 (as claimed): whenever no call is in progress, every id that has an
\* entry in user_map is in item_ids.
C17_OwnersAreIndexed == Quiescent => MapKeys(user_map) \subseteq Range(item_ids)

\* C17 for calls that run one at a time, returning or raising.
C17_OwnersAreIndexedSerial == MapKeys(user_map) \subseteq Range(item_ids)

\* The candidates of the search that has returned: the batch index.search
\* gave it, best first.
Candidates ==
    IndexSearch(index, Normalize(last.embedding), Min(last.k * OVERFETCH, Len(index)))

\* The item at a candidate's ordinal.
ItemAt(cand) == item_ids[cand.idx + 1]

\* The item is let through by the ownership filter and by the exclusion
\* filter of search_similar.
Passes(item_id, um, exclude_id, user_id) ==
    /\ ~ (user_id # None /\ MapGet(um, item_id) # None /\ MapGet(um, item_id) # user_id)
    /\ ~ (Truthy(exclude_id) /\ item_id = exclude_id[1])

\* The positions of the batch whose item passes the filters of the search.
Survivors ==
    LET cands == Candidates
    IN  {p \in DOMAIN cands :
            Passes(ItemAt(cands[p]), user_map, last.exclude_id, last.user_id)}

\* The ordinals of the store that are not in the batch.
BeyondBatch ==
    LET cands == Candidates
    IN  {o \in 0..(Len(index) - 1) : \A p \in DOMAIN cands : cands[p].idx # o}

\* C18: search_similar looks at one batch of the min(10 * k, size()) best
\* stored vectors: no vector outside the batch scores higher than one inside,
\* every returned item is at a candidate of the batch, and the result has as
\* many items as pass the filters in the batch, up to k, whatever the store
\* holds beyond the batch.
C18_SingleBatch ==
    (last.op = "search_similar" /\ Len(index) > 0)
      => LET cands == Candidates
             vec == Normalize(last.embedding)
             survivors == Survivors
         IN  /\ Len(cands) = Min(10 * last.k, Len(index))
             /\ \A o \in BeyondBatch, p \in DOMAIN cands :
                   ~ ScoreLess(cands[p].score, Score(index[o + 1], vec))
             /\ \A n \in DOMAIN last.result :
                   \E p \in DOMAIN cands :
                      ItemAt(cands[p]) = last.result[n].item_id
             /\ Len(last.result) = Min(last.k, Cardinality(survivors))

\* A search for one item has returned the empty list: none of the ten
\* candidates passed the filters, and an item beyond the batch passes them.
C18_Witness ==
    /\ last.op = "search_similar"
    /\ last.k = 1
    /\ Len(Candidates) = 10
    /\ last.result = <<>>
    /\ \E o \in BeyondBatch :
          Passes(item_ids[o + 1], user_map, last.exclude_id, last.user_id)

\* The position in the batch of the n-th candidate that passes the filters.
NthSurvivor(n) ==
    LET survivors == Survivors
    IN  CHOOSE p \in survivors : Cardinality({q \in survivors : q < p}) = n - 1

\* C19: the list search_similar returns is in descending score order, and it
\* is the first k candidates of the batch that pass the filters, in rank
\* order, each with its score: all of them when fewer than k pass.
C19_FirstKInRankOrder ==
    (last.op = "search_similar" /\ Len(index) > 0)
      => LET cands == Candidates
             survivors == Survivors
         IN  /\ \A n \in 1..(Len(last.result) - 1) :
                   ~ ScoreLess(last.result[n].score, last.result[n + 1].score)
             /\ Len(last.result) = Min(last.k, Cardinality(survivors))
             /\ \A n \in DOMAIN last.result :
                   last.result[n] = [item_id |-> ItemAt(cands[NthSurvivor(n)]),
                                     score |-> cands[NthSurvivor(n)].score]

\* A search for two items has returned two items of different scores, and a
\* candidate ranked above the second of them was dropped by a filter.
C19_Witness ==
    /\ last.op = "search_similar"
    /\ last.k = 2
    /\ Len(last.result) = 2
    /\ ScoreLess(last.result[2].score, last.result[1].score)
    /\ NthSurvivor(2) > 2

\* C20 (as claimed): a search with exclude_id = x returns no pair whose item
\* is x, whatever x is, 0 included.
C20_ExcludedNeverReturned ==
    (last.op = "search_similar" /\ last.exclude_id # None)
      => \A n \in DOMAIN last.result : last.result[n].item_id # last.exclude_id[1]

\* C20 for the ids other than 0.
C20_ExcludedNeverReturnedNonZero ==
    (last.op = "search_similar" /\ last.exclude_id # None /\ last.exclude_id # Some(0))
      => \A n \in DOMAIN last.result : last.result[n].item_id # last.exclude_id[1]

\* The ids a search by the owner other finds, whatever it asks for.
FoundBy(other) ==
    {SearchSimilar(Here, q, k, None, Some(other))[n].item_id :
        <<q, k, n>> \in {x \in Queries \X (1..MaxK) \X (1..MaxIndexLen) :
                           x[3] <= Len(SearchSimilar(Here, x[1], x[2], None, Some(other)))}}

\* C21 (as claimed): when add_item(item_id, e, owner_id) with an owner has
\* returned, user_map holds that owner for item_id, whatever the owner's id
\* is, 0 included, and no search filtered by another owner returns item_id.
C21_OwnerRecorded ==
    (last.op = "add_item" /\ last.outcome = "ok" /\ last.user_id # None)
      => /\ MapGet(user_map, last.item_id[1]) = last.user_id
         /\ \A other \in UserIds \ {last.user_id[1]} :
               last.item_id[1] \notin FoundBy(other)

\* C21 for the owners other than 0.
C21_OwnerRecordedNonZero ==
    (last.op = "add_item" /\ last.outcome = "ok" /\ last.user_id # None
       /\ last.user_id # Some(0))
      => /\ MapGet(user_map, last.item_id[1]) = last.user_id
         /\ \A other \in UserIds \ {last.user_id[1]} :
               last.item_id[1] \notin FoundBy(other)

\* C22 (as claimed): when load_or_create has returned and every row of the
\* Catalog can be indexed, the store has one vector for each id of item_ids
\* and the vector at each ordinal is the normalized Catalog embedding of the
\* item at that ordinal, whatever file the earlier calls wrote.
C22_VectorsMatchIds ==
    (/\ last.op = "load_or_create"
     /\ last.outcome = "ok"
     /\ \A i \in CatalogIds : Indexable(catalog[i]))
      => /\ Len(index) = Len(item_ids)
         /\ Range(item_ids) \subseteq CatalogIds
         /\ index = VectorsOf(catalog, item_ids)

\* C22 for the loads that rebuild: the correspondence holds whenever the
\* file's count differs from the Catalog's.
C22_VectorsMatchIdsRebuilt ==
    (/\ last.op = "load_or_create"
     /\ last.outcome = "ok"
     /\ last.rebuilt
     /\ \A i \in CatalogIds : Indexable(catalog[i]))
      => /\ Len(index) = Len(item_ids)
         /\ Range(item_ids) \subseteq CatalogIds
         /\ index = VectorsOf(catalog, item_ids)

\* C23 (as claimed): when load_or_create has returned on a Catalog whose
\* rows can all be indexed, the store holds as many vectors as the Catalog
\* has embedding-bearing rows, also when there was no file at INDEX_PATH.
C23_SizeAfterLoad ==
    (/\ last.op = "load_or_create"
     /\ last.outcome = "ok"
     /\ \A i \in CatalogIds : Indexable(catalog[i]))
      => Len(index) = Cardinality(CatalogIds)

\* C23 for the loads that find a file.
C23_SizeAfterLoadWithFile ==
    [][(last'.op = "load_or_create" /\ last'.outcome = "ok" /\ snapshot.exists)
         => Len(index') = Cardinality(CatalogIds)]_vars

\* No request is under way.
Completed == \A t \in Threads : pc[t] = "idle"

\* The list holds no id twice.
NoDuplicates(s) == Cardinality(Range(s)) = Len(s)

\* C24 (as claimed): from an index that matches the Catalog, when the add and
\* delete requests made have all run to completion, whatever their
\* interleaving, item_ids holds each embedding-bearing id of the Catalog once
\* and no other id.
C24_IndexMatchesCatalogAtCompletion ==
    Completed => /\ NoDuplicates(item_ids)
                 /\ Range(item_ids) = CatalogIds

\* C25 (as claimed): whatever the order of the first calls of
\* get_embedding_index, at most one EmbeddingIndex is constructed, the idx of
\* every handler is the object _embedding_index refers to, and no add_item
\* has been applied to another object.
C25_Singleton ==
    /\ Cardinality({t \in Threads : loc[t].built}) <= 1
    /\ \A t \in Threads : loc[t].own # "private" /\ pc[t] # "lost"

\* C25 when the first call has returned before the next one starts: every
\* call that finds _embedding_index set constructs nothing and returns the
\* object it refers to.
C25_SingletonOnceSet ==
    [][\A t \in Threads :
         (ready /\ At(t, "idle") /\ pc'[t] # "idle")
           => /\ pc'[t] = "g_return"
              /\ ~loc'[t].built
              /\ UNCHANGED <<index, item_ids, user_map>>]_vars

\* C26 (as claimed): when each created row is added to the index once,
\* by the request that created it, item_ids holds no id twice and no result
\* of a search lists an id twice, whatever the interleaving of the add and
\* delete requests.
C26_NoDuplicateIds ==
    /\ NoDuplicates(item_ids)
    /\ last.op = "search_similar"
         => NoDuplicates([n \in DOMAIN last.result |-> last.result[n].item_id])

\* C26 where no delete request rebuilds the index between the commit of a
\* row and its add_item: an add leaves item_ids without a duplicate when
\* the id was not in it.
C26_AddKeepsDistinct ==
    [][\A t \in Threads :
         (/\ At(t, "h_add") /\ pc'[t] = "idle"
          /\ NoDuplicates(item_ids)
          /\ loc[t].item_id[1] \notin Range(item_ids))
           => NoDuplicates(item_ids')]_vars

\* The upload of thread t has ended with an error response.
UploadFailed(t) == pc[t] = "u_done" /\ loc[t].outcome # "ok"

\* C27 (as claimed): when upload_item has ended with an error response,
\* whichever statement failed, the Catalog has no row of that upload and
\* item_ids does not hold its id; and the image file is removed only if the
\* row is gone too.
C27_UploadAllOrNothing ==
    \A t \in Threads :
       /\ UploadFailed(t) /\ loc[t].item_id # None
            => /\ ~catalog[loc[t].item_id[1]].present
               /\ loc[t].item_id[1] \notin Range(item_ids)
       /\ (pc[t] = "u_done" /\ loc[t].image = "removed" /\ loc[t].item_id # None)
            => ~catalog[loc[t].item_id[1]].present

\* C27 for the failures before the row is committed (classification,
\* embedding, the commit itself): the Catalog and the index are as they were
\* when the upload started, and the image file is removed.
C27_UploadAllOrNothingUncommitted ==
    [][\A t \in Threads :
         (At(t, "u_except") /\ pc'[t] = "u_done" /\ loc[t].item_id = None)
           => /\ loc'[t].image = "removed"
              /\ UNCHANGED <<catalog, index, item_ids, user_map, snapshot>>]_vars

====
